---- MODULE Spec2Model ----
(***************************************************************************)
(* The line-indexed document patch protocol of the chats application:      *)
(* parseTextEditMarkup, applyTextEditChanges, the completeness check of    *)
(* ChatMessages and the markup-processing effect of ChatsAppComponent.     *)
(*                                                                         *)
(* A string is a sequence of characters (one-character strings); the line  *)
(* break is NL.  An edit object is a record [type, line, count, content];  *)
(* a missing count is Undefined and a missing content is the empty string  *)
(* (the code only ever tests content for truthiness).                      *)
(***************************************************************************)
EXTENDS Integers, Sequences, FiniteSets, TLC

\* ------------------------------------------------------------- bounds
MaxLines == 3      \* longest document, in lines
MaxEdits == 2      \* longest batch handed to applyTextEditChanges
MaxLineNo == 4     \* largest line attribute of a directive
MaxCount == 2      \* largest count attribute of a directive
MaxChunks == 2     \* longest message text, in directives and other pieces
MaxTurns == 1      \* messages the user submits
MaxText == 3       \* longest free document text, in characters
MaxSpeak == 2     \* speak() calls accepted
MaxStops == 1     \* stop() calls
MaxTime == 2      \* the audio clock runs from 0 to MaxTime
MaxDur == 2       \* the duration of a clip, 1..MaxDur
MaxRequests == 3  \* requests the chat-rooms API handles at the same time
MaxSends == 2     \* room messages the client sends
MaxSwitches == 3  \* room switches of the client
KeepLatest == 100 \* ltrim(key, 0, 99): the messages a room keeps

\* ------------------------------------------------------------ helpers
NL == "\n"
Undefined == 0 - 1

Min(a, b) == IF a < b THEN a ELSE b
Max(a, b) == IF a > b THEN a ELSE b

\* String.prototype.split("\n"): always at least one piece.
RECURSIVE SplitTrimmed(_)
SplitTrimmed(s) ==
  IF \A k \in 1..Len(s) : s[k] # NL
  THEN IF s = <<>> THEN <<>> ELSE <<s>>
  ELSE LET p == CHOOSE k \in 1..Len(s) :
                  s[k] = NL /\ \A m \in 1..(k - 1) : s[m] # NL
       IN <<SubSeq(s, 1, p - 1)>> \o SplitTrimmed(SubSeq(s, p + 1, Len(s)))

RECURSIVE Split(_)
Split(s) ==
  IF \A k \in 1..Len(s) : s[k] # NL
  THEN <<s>>
  ELSE LET p == CHOOSE k \in 1..Len(s) :
                  s[k] = NL /\ \A m \in 1..(k - 1) : s[m] # NL
       IN <<SubSeq(s, 1, p - 1)>> \o Split(SubSeq(s, p + 1, Len(s)))

\* Array.prototype.join("\n").
RECURSIVE Join(_)
Join(ls) ==
  IF ls = <<>> THEN <<>>
  ELSE IF Len(ls) = 1 THEN ls[1]
  ELSE ls[1] \o <<NL>> \o Join(Tail(ls))

\* Array.prototype.splice(start, deleteCount, ...items) on a 0-based start.
Splice(s, start, deleteCount, items) ==
  LET st == Min(Max(start, 0), Len(s))
      dc == Min(Max(deleteCount, 0), Len(s) - st)
  IN SubSeq(s, 1, st) \o items \o SubSeq(s, st + dc + 1, Len(s))

\* edit.count || 1
CountOr1(e) == IF e.count = Undefined \/ e.count = 0 THEN 1 ELSE e.count

\* --------------------------------------------- applyTextEditChanges
\* editsCopy.sort((a, b) => a.line - b.line): the sort is stable.  The arrays
\* hold references (ids) into the heap objs of edit objects.
InsertSortedTiesFirst(sorted, id, objs) ==
  LET k == Cardinality({m \in 1..Len(sorted) : objs[sorted[m]].line < objs[id].line})
  IN SubSeq(sorted, 1, k) \o <<id>> \o SubSeq(sorted, k + 1, Len(sorted))

InsertSorted(sorted, id, objs) ==
  LET k == Cardinality({m \in 1..Len(sorted) : objs[sorted[m]].line <= objs[id].line})
  IN SubSeq(sorted, 1, k) \o <<id>> \o SubSeq(sorted, k + 1, Len(sorted))

RECURSIVE SortByLine(_, _)
SortByLine(ids, objs) ==
  IF ids = <<>> THEN <<>>
  ELSE InsertSorted(SortByLine(SubSeq(ids, 1, Len(ids) - 1), objs),
                    ids[Len(ids)], objs)

\* The validity check at the top of the loop body: TRUE when the edit is
\* skipped by `continue`.
InsertInvalidNever(e, ls) == FALSE

InsertInvalid(e, ls) ==
  e.type = "insert" /\ (e.line - 1 < 0 \/ e.line - 1 > Len(ls) + 1)

RangeInvalidStrict(e, ls) ==
  e.type \in {"replace", "delete"}
  /\ (e.line - 1 < 0 \/ e.line - 1 + CountOr1(e) > Len(ls))

RangeInvalidLoose(e, ls) ==
  e.type \in {"replace", "delete"} /\ (e.line - 1 < 0 \/ e.line - 1 > Len(ls))

RangeInvalid(e, ls) ==
  e.type \in {"replace", "delete"} /\ (e.line - 1 < 0 \/ e.line - 1 >= Len(ls))

\* The mutation of one edit: [lines, change, ev], change being lineCountChange
\* and ev the record of what was done to the working array.
NoEvent(e, what, ls) ==
  [type |-> e.type, what |-> what, index |-> e.line - 1, removed |-> 0,
   inserted |-> 0, before |-> Len(ls)]

CaseInsert(e, ls) ==
  IF e.content # <<>>
  THEN LET newLines == Split(e.content)
           lineIndex == IF e.line - 1 > Len(ls) THEN Len(ls) ELSE e.line - 1
       IN [lines |-> Splice(ls, lineIndex, 0, newLines),
           change |-> Len(newLines),
           ev |-> [type |-> "insert", what |-> "applied", index |-> lineIndex,
                   removed |-> 0, inserted |-> Len(newLines), before |-> Len(ls)]]
  ELSE [lines |-> ls, change |-> 0, ev |-> NoEvent(e, "nocontent", ls)]

CaseReplace(e, ls) ==
  IF e.content # <<>>
  THEN LET count == Min(CountOr1(e), Len(ls) - (e.line - 1))
           newLines == Split(e.content)
           lineIndex == IF e.line - 1 >= Len(ls) THEN Max(0, Len(ls) - 1)
                        ELSE e.line - 1
       IN [lines |-> Splice(ls, lineIndex, count, newLines),
           change |-> Len(newLines) - count,
           ev |-> [type |-> "replace", what |-> "applied", index |-> lineIndex,
                   removed |-> count, inserted |-> Len(newLines),
                   before |-> Len(ls)]]
  ELSE [lines |-> ls, change |-> 0, ev |-> NoEvent(e, "nocontent", ls)]

CaseDeleteUntruncated(e, ls) ==
  LET count == CountOr1(e)
  IN [lines |-> Splice(ls, e.line - 1, count, <<>>),
      change |-> 0 - count,
      ev |-> [type |-> "delete", what |-> "applied", index |-> e.line - 1,
              removed |-> count, inserted |-> 0, before |-> Len(ls)]]

CaseDelete(e, ls) ==
  LET count == Min(CountOr1(e), Len(ls) - (e.line - 1))
  IN [lines |-> Splice(ls, e.line - 1, count, <<>>),
      change |-> 0 - count,
      ev |-> [type |-> "delete", what |-> "applied", index |-> e.line - 1,
              removed |-> count, inserted |-> 0, before |-> Len(ls)]]

ApplyEdit(e, ls) ==
  IF InsertInvalid(e, ls) \/ RangeInvalid(e, ls)
  THEN [lines |-> ls, change |-> 0, ev |-> NoEvent(e, "skipped", ls)]
  ELSE CASE e.type = "insert" -> CaseInsert(e, ls)
         [] e.type = "replace" -> CaseReplace(e, ls)
         [] e.type = "delete" -> CaseDelete(e, ls)

\* adjustmentThreshold of the edit just applied.
AdjustmentThreshold(e) ==
  IF e.type \in {"replace", "delete"} THEN e.line + CountOr1(e) - 1 ELSE e.line

\* The new line of a later edit d that lies beyond the threshold.
AdjustedLineKept(d, change, len) == d.line

AdjustedLineUnclamped(d, change, len) == d.line + change

AdjustedLine(d, change, len) ==
  LET moved == d.line + change
  IN IF moved <= 0 THEN 1
     ELSE IF d.type # "insert" /\ moved > len THEN Max(1, len)
     ELSE moved

\* The inner loop over j = i + 1 .. editsCopy.length - 1 (i is 0-based):
\* the heap after the line numbers of the later edits have been adjusted.
Propagate(objs, copy, i, e, change, len) ==
  LET later == {copy[j] : j \in (i + 2)..Len(copy)}
  IN [id \in DOMAIN objs |->
        IF change # 0 /\ id \in later /\ objs[id].line > AdjustmentThreshold(e)
        THEN [objs[id] EXCEPT !.line = AdjustedLine(objs[id], change, len)]
        ELSE objs[id]]

\* One iteration of the main loop on the state st = [lines, objs, copy, i].
ApplyIter(st) ==
  LET e == st.objs[st.copy[st.i + 1]]
      r == ApplyEdit(e, st.lines)
  IN [lines |-> r.lines,
      objs |-> Propagate(st.objs, st.copy, st.i, e, r.change, Len(r.lines)),
      copy |-> st.copy,
      i |-> st.i + 1,
      ev |-> r.ev]

RECURSIVE ApplyLoop(_)
ApplyLoop(st) ==
  IF st.i >= Len(st.copy) THEN st
  ELSE LET n == ApplyIter(st)
       IN ApplyLoop([lines |-> n.lines, objs |-> n.objs, copy |-> n.copy, i |-> n.i])

Ids(es) == [k \in 1..Len(es) |-> k]

\* if (!edits.length) return content: what the early return hands back.
EarlyReturnNothing(text) == <<>>

EarlyReturn(text) == text

\* The whole call, on a batch of fresh edit objects es.
applyTextEditChanges(text, es) ==
  IF Len(es) = 0 THEN EarlyReturn(text)
  ELSE Join(ApplyLoop([lines |-> Split(text), objs |-> es,
                       copy |-> SortByLine(Ids(es), es), i |-> 0]).lines)

\* ---------------------------------------------- parseTextEditMarkup
\* A message text is a sequence of atoms: the fragments of the markup that the
\* regular expressions tell apart, and plain characters.  A closing marker is
\* the two atoms CloseInsert (or CloseReplace) and Gt, an opening marker is
\* its head, its attributes and Gt, a delete is closed by SlashGt.
OpenInsert == "<textedit:insert"
OpenReplace == "<textedit:replace"
OpenDelete == "<textedit:delete"
CloseInsert == "</textedit:insert"
CloseReplace == "</textedit:replace"
Gt == ">"
SlashGt == "/>"
LineAttr(n) == " line=\"" \o ToString(n) \o "\""
CountAttr(n) == " count=\"" \o ToString(n) \o "\""

AttrValues == 0..Max(MaxLineNo, MaxCount)
IsLineAttr(a) == \E n \in AttrValues : a = LineAttr(n)
IsCountAttr(a) == \E n \in AttrValues : a = CountAttr(n)
\* parseInt(match[1], 10) and parseInt(match[2], 10) on the digits captured.
ParseLineAttr(a) == CHOOSE n \in AttrValues : a = LineAttr(n)
ParseCountAttr(a) == CHOOSE n \in AttrValues : a = CountAttr(n)

At(m, p) == IF p \in 1..Len(m) THEN m[p] ELSE ""

\* String.prototype.trim on the atoms that are white space.
RECURSIVE Trim(_)
Trim(m) ==
  IF m = <<>> THEN m
  ELSE IF m[1] = NL THEN Trim(Tail(m))
  ELSE IF m[Len(m)] = NL THEN Trim(SubSeq(m, 1, Len(m) - 1))
  ELSE m

NoMatch == [ok |-> FALSE, pos |-> 0, end |-> 0, g1 |-> "", g2 |-> "", body |-> <<>>]

\* ([\s\S]*?) followed by the closing marker: the first closing marker at or
\* after position from, 0 if there is none.
FirstClose(m, from, closer) ==
  IF \E q \in from..Len(m) : At(m, q) = closer /\ At(m, q + 1) = Gt
  THEN CHOOSE q \in from..Len(m) :
         /\ At(m, q) = closer /\ At(m, q + 1) = Gt
         /\ \A r \in from..(q - 1) : ~ (At(m, r) = closer /\ At(m, r + 1) = Gt)
  ELSE 0

\* insertRegex anchored at position p.
InsertMatch(m, p) ==
  IF At(m, p) = OpenInsert /\ IsLineAttr(At(m, p + 1)) /\ At(m, p + 2) = Gt
     /\ FirstClose(m, p + 3, CloseInsert) # 0
  THEN LET q == FirstClose(m, p + 3, CloseInsert)
       IN [ok |-> TRUE, pos |-> p, end |-> q + 1, g1 |-> At(m, p + 1), g2 |-> "",
           body |-> SubSeq(m, p + 3, q - 1)]
  ELSE NoMatch

\* replaceRegex anchored at position p: the count attribute is optional.
ReplaceMatch(m, p) ==
  LET counted == IsCountAttr(At(m, p + 2))
      open == IF counted THEN p + 3 ELSE p + 2
  IN IF At(m, p) = OpenReplace /\ IsLineAttr(At(m, p + 1)) /\ At(m, open) = Gt
        /\ FirstClose(m, open + 1, CloseReplace) # 0
     THEN LET q == FirstClose(m, open + 1, CloseReplace)
          IN [ok |-> TRUE, pos |-> p, end |-> q + 1, g1 |-> At(m, p + 1),
              g2 |-> IF counted THEN At(m, p + 2) ELSE "",
              body |-> SubSeq(m, open + 1, q - 1)]
     ELSE NoMatch

\* deleteRegex anchored at position p.
DeleteMatch(m, p) ==
  LET counted == IsCountAttr(At(m, p + 2))
      close == IF counted THEN p + 3 ELSE p + 2
  IN IF At(m, p) = OpenDelete /\ IsLineAttr(At(m, p + 1)) /\ At(m, close) = SlashGt
     THEN [ok |-> TRUE, pos |-> p, end |-> close, g1 |-> At(m, p + 1),
           g2 |-> IF counted THEN At(m, p + 2) ELSE "", body |-> <<>>]
     ELSE NoMatch

MatchAt(kind, m, p) ==
  CASE kind = "insert" -> InsertMatch(m, p)
    [] kind = "replace" -> ReplaceMatch(m, p)
    [] kind = "delete" -> DeleteMatch(m, p)

\* String.prototype.matchAll with a global regular expression: the matches
\* from left to right, none overlapping another.
RECURSIVE MatchAll(_, _, _)
MatchAll(kind, m, p) ==
  IF p > Len(m) THEN <<>>
  ELSE LET r == MatchAt(kind, m, p)
       IN IF r.ok THEN <<r>> \o MatchAll(kind, m, r.end + 1)
          ELSE MatchAll(kind, m, p + 1)

\* The .map() of each kind: the edit object of a match, with the position of
\* the match in the text (pos is not a field of the object in the code).
InsertOf(r) ==
  [type |-> "insert", line |-> ParseLineAttr(r.g1), count |-> Undefined,
   content |-> r.body, pos |-> r.pos]

ReplaceOf(r) ==
  [type |-> "replace", line |-> ParseLineAttr(r.g1),
   count |-> IF r.g2 # "" THEN ParseCountAttr(r.g2) ELSE 1,
   content |-> r.body, pos |-> r.pos]

DeleteOfNoDefault(r) ==
  [type |-> "delete", line |-> ParseLineAttr(r.g1),
   count |-> IF r.g2 # "" THEN ParseCountAttr(r.g2) ELSE Undefined,
   content |-> <<>>, pos |-> r.pos]

DeleteOf(r) ==
  [type |-> "delete", line |-> ParseLineAttr(r.g1),
   count |-> IF r.g2 # "" THEN ParseCountAttr(r.g2) ELSE 1,
   content |-> <<>>, pos |-> r.pos]

\* The .filter() of each kind.
KeepInsertAny(e) == TRUE
KeepInsert(e) == e.line > 0
KeepCounted(e) == e.line > 0 /\ CountOr1(e) > 0

allInsertions(m) ==
  LET ms == MatchAll("insert", m, 1)
  IN SelectSeq([k \in 1..Len(ms) |-> InsertOf(ms[k])], KeepInsert)

allReplacements(m) ==
  LET ms == MatchAll("replace", m, 1)
  IN SelectSeq([k \in 1..Len(ms) |-> ReplaceOf(ms[k])], KeepCounted)

allDeletions(m) ==
  LET ms == MatchAll("delete", m, 1)
  IN SelectSeq([k \in 1..Len(ms) |-> DeleteOf(ms[k])], KeepCounted)

\* A list of located edits sorted by position in the text.
RECURSIVE ByPosition(_)
ByPosition(es) ==
  IF es = <<>> THEN <<>>
  ELSE LET k == CHOOSE a \in 1..Len(es) : \A b \in 1..Len(es) : es[a].pos <= es[b].pos
       IN <<es[k]>> \o ByPosition(SubSeq(es, 1, k - 1) \o SubSeq(es, k + 1, Len(es)))

LocatedEditsByPosition(message) ==
  LET t == Trim(message)
  IN ByPosition(allInsertions(t) \o allReplacements(t) \o allDeletions(t))

\* edits.push(...allInsertions, ...allReplacements, ...allDeletions)
LocatedEdits(message) ==
  LET t == Trim(message)
  IN allInsertions(t) \o allReplacements(t) \o allDeletions(t)

\* The position in the text of each edit returned.
EditPositions(message) ==
  LET es == LocatedEdits(message) IN [k \in 1..Len(es) |-> es[k].pos]

\* The returned list of edit objects.
parseTextEditMarkup(message) ==
  LET es == LocatedEdits(message)
  IN [k \in 1..Len(es) |->
        [type |-> es[k].type, line |-> es[k].line, count |-> es[k].count,
         content |-> es[k].content]]

\* ------------------------------------ the completeness check of ChatMessages
IsOpenHead(a) == a \in {OpenInsert, OpenReplace, OpenDelete}
HasGt(a) == a \in {Gt, SlashGt}

\* /<textedit:(insert|replace|delete)/g
OpenTags(m) == Cardinality({p \in 1..Len(m) : IsOpenHead(m[p])})

\* <textedit:delete[^>]*\/> anchored at p: the position of its last atom, or 0.
SelfClosedEnd(m, p) ==
  IF m[p] = OpenDelete
     /\ \E q \in (p + 1)..Len(m) :
          m[q] = SlashGt /\ \A r \in (p + 1)..(q - 1) : ~ HasGt(m[r])
  THEN CHOOSE q \in (p + 1)..Len(m) :
         m[q] = SlashGt /\ \A r \in (p + 1)..(q - 1) : ~ HasGt(m[r])
  ELSE 0

\* /<\/textedit:(insert|replace)>|<textedit:delete[^>]*\/>/g from position p.
RECURSIVE CloseTagsInsertOnly(_, _)
CloseTagsInsertOnly(m, p) ==
  IF p > Len(m) THEN 0
  ELSE IF m[p] = CloseInsert /\ At(m, p + 1) = Gt
       THEN 1 + CloseTagsInsertOnly(m, p + 2)
  ELSE IF SelfClosedEnd(m, p) # 0
       THEN 1 + CloseTagsInsertOnly(m, SelfClosedEnd(m, p) + 1)
  ELSE CloseTagsInsertOnly(m, p + 1)

RECURSIVE CloseTags(_, _)
CloseTags(m, p) ==
  IF p > Len(m) THEN 0
  ELSE IF m[p] \in {CloseInsert, CloseReplace} /\ At(m, p + 1) = Gt
       THEN 1 + CloseTags(m, p + 2)
  ELSE IF SelfClosedEnd(m, p) # 0
       THEN 1 + CloseTags(m, SelfClosedEnd(m, p) + 1)
  ELSE CloseTags(m, p + 1)

\* hasIncompleteXmlTags of a message content.
hasIncompleteXmlTags(m) ==
  /\ \E p \in 1..Len(m) : IsOpenHead(m[p])
  /\ OpenTags(m) # CloseTags(m, 1)

\* ------------------------------------------------------------- inputs
\* Documents of numbered lines, "1" and "1\n2\n...": the shortest and the
\* longest one.
RECURSIVE NumberedLines(_)
NumberedLines(n) ==
  IF n = 0 THEN <<>> ELSE NumberedLines(n - 1) \o << <<ToString(n)>> >>

Docs == {Join(NumberedLines(n)) : n \in {1, MaxLines}}

\* A count attribute is the default 1 or the largest one.
Counts == {1, MaxCount}

\* Payloads: empty or two lines for an insert; empty, one or two lines for a
\* replace.
InsertPayloads == {<<>>, <<"A", NL, "B">>}
ReplacePayloads == {<<>>, <<"R">>, <<"R", NL, "S">>}

Edits ==
  [type : {"insert"}, line : 1..MaxLineNo, count : {Undefined},
   content : InsertPayloads]
  \cup [type : {"replace"}, line : 1..MaxLineNo, count : Counts,
        content : ReplacePayloads]
  \cup [type : {"delete"}, line : 1..MaxLineNo, count : Counts,
        content : {<<>>}]

Batches == UNION {[1..n -> Edits] : n \in 0..MaxEdits}

\* Free document texts: every text of "a" and line breaks up to MaxText
\* characters, with empty lines, leading and trailing breaks.
Texts == UNION {[1..n -> {"a", NL}] : n \in 0..MaxText}

\* Edits that no such text has a line for, and one that every text has.
FarEdits ==
  {[type |-> "replace", line |-> MaxText + 2, count |-> 1, content |-> <<"R">>],
   [type |-> "delete", line |-> MaxText + 2, count |-> 1, content |-> <<>>],
   [type |-> "insert", line |-> MaxText + 4, count |-> Undefined, content |-> <<"A">>]}
NearEdits == {[type |-> "delete", line |-> 1, count |-> 1, content |-> <<>>]}

TextBatches == UNION {[1..n -> FarEdits \cup NearEdits] : n \in 0..MaxEdits}

\* --------------------------------------------------- message texts
AttrLines == {0, 1, MaxLineNo}
AttrCounts == {Undefined, 0, 1, MaxCount}

InsertChunk(l, body) ==
  <<OpenInsert, LineAttr(l), Gt>> \o body \o <<CloseInsert, Gt>>

ReplaceChunk(l, c, body) ==
  <<OpenReplace, LineAttr(l)>> \o (IF c = Undefined THEN <<>> ELSE <<CountAttr(c)>>)
    \o <<Gt>> \o body \o <<CloseReplace, Gt>>

DeleteChunk(l, c) ==
  <<OpenDelete, LineAttr(l)>> \o (IF c = Undefined THEN <<>> ELSE <<CountAttr(c)>>)
    \o <<SlashGt>>

InsertChunks == {InsertChunk(l, b) : l \in AttrLines, b \in InsertPayloads}
ReplaceChunks == {ReplaceChunk(l, c, <<"R">>) : l \in AttrLines, c \in AttrCounts}
DeleteChunks == {DeleteChunk(l, c) : l \in AttrLines, c \in AttrCounts}
PlainChunks == {<<"x">>}
\* Markup cut short or left over: an opening marker never closed, a closing
\* marker never opened.
BrokenChunks ==
  {<<OpenInsert, LineAttr(1), Gt, "A">>, <<OpenReplace, LineAttr(1), Gt, "R">>,
   <<CloseInsert, Gt>>, <<CloseReplace, Gt>>}

WellFormedChunks == InsertChunks \cup ReplaceChunks \cup DeleteChunks \cup PlainChunks
Chunks == WellFormedChunks \cup BrokenChunks

RECURSIVE Flatten(_)
Flatten(cs) == IF cs = <<>> THEN <<>> ELSE cs[1] \o Flatten(Tail(cs))

Messages == {Flatten(cs) : cs \in UNION {[1..n -> Chunks] : n \in 0..MaxChunks}}

\* -------------------------------------------------------------- state
VARIABLES
  content,     \* applyTextEditChanges: the argument content
  edits,       \* the caller's array: references to edit objects
  objs,        \* the heap of edit objects, by reference
  objs0,       \* the heap when the call was made
  lines,       \* the working array
  editsCopy,   \* the sorted copy of the caller's array
  i,           \* the loop index (0-based)
  pc,          \* "stream", "parse", "call", "loop", "done"
  result,      \* the returned text
  log,         \* what each iteration did
  message,     \* the content of the assistant message, as far as it has arrived
  pending,     \* the rest of the text, still to be streamed
  chunks,      \* the pieces the whole text is made of
  where,       \* the position in the text of each edit parseTextEditMarkup returned
  editing,     \* hasIncompleteXmlTags as last rendered
  aiMessages,             \* useChat's messages: [id, role, content, old]
  isLoading,              \* useChat's isLoading: a response is streaming
  nextId,                 \* the id the next message gets
  processedMessageIds,    \* the ref: ids of the messages already processed
  initialMessagesLoaded,  \* the ref: the initial messages have been marked
  isProcessingEdits,      \* the ref: set while a message is being processed
  textEditContext,        \* the state: [open, fileName, content], open FALSE for null
  storage,                \* localStorage of TextEdit: [content, path]
  tasks,                  \* the processing functions suspended at an await
  dirty,                  \* a dependency of the effects changed: they run again
  applyCount,             \* per message id, the calls of applyTextEditChanges
  appOps                  \* per message id, the calls of launchApp and toggleApp

applyVars == <<content, edits, objs, objs0, lines, editsCopy, i, pc, result, log>>
textVars == <<message, pending, chunks, where, editing>>
chatVars == <<aiMessages, isLoading, nextId, processedMessageIds,
              initialMessagesLoaded, isProcessingEdits, textEditContext, storage,
              tasks, dirty, applyCount, appOps>>

\* The state of the hook useTtsQueue.
VARIABLES
  calls,           \* the accepted speak() calls: the callback each one chained
  playChainRef,    \* the call whose promise is the chain's tail, 0 when resolved
  controllersRef,  \* the calls whose AbortController is in the set
  nextStartRef,    \* the start time of the next clip
  lastTextRef,     \* the last text accepted, <<>> for null
  ctxRef,          \* the AudioContext has been created
  currentTime,     \* ctx.currentTime
  stops            \* the calls of stop() so far

ttsVars == <<calls, playChainRef, controllersRef, nextStartRef, lastTextRef, ctxRef,
             currentTime, stops>>

\* The Redis keys of one chat room and the requests of api/chat-rooms.js in
\* flight for it.
VARIABLES
  roomRecord,   \* chat:room:<id>: [exists, userCount]
  roomUsers,    \* chat:room:users:<id>: the set of usernames
  messageList,  \* chat:messages:<id>: the list, latest first
  requests      \* the requests: [op, username, at, roomData, userCount, status]

roomVars == <<roomRecord, roomUsers, messageList, requests>>

\* The room chat of ChatsAppComponent: its state, the cache in localStorage,
\* the messages the server holds and what is on its way to the client.
VARIABLES
  currentRoom,     \* the id of the room selected, "" for null
  roomMessages,    \* the state roomMessages
  cache,           \* saveRoomMessagesToCache: per room id, the list saved
  serverMessages,  \* per room id, the messages getMessages returns
  net,             \* fetch responses, send responses and Pusher events under way
  sent,            \* the calls of sendRoomMessage so far
  switches         \* the room switches so far

clientVars == <<currentRoom, roomMessages, cache, serverMessages, net, sent, switches>>

extVars == <<ttsVars, roomVars, clientVars>>

vars == <<applyVars, textVars, chatVars, extVars>>

NullContext == [open |-> FALSE, fileName |-> "", content |-> <<>>]

NoChat ==
  /\ aiMessages = <<>>
  /\ isLoading = FALSE
  /\ nextId = 1
  /\ processedMessageIds = {}
  /\ initialMessagesLoaded = FALSE
  /\ isProcessingEdits = FALSE
  /\ textEditContext = NullContext
  /\ storage = [content |-> <<>>, path |-> FALSE]
  /\ tasks = <<>>
  /\ dirty = FALSE
  /\ applyCount = <<>>
  /\ appOps = <<>>

NoCall ==
  /\ objs = <<>>
  /\ objs0 = <<>>
  /\ edits = <<>>
  /\ lines = <<>>
  /\ editsCopy = <<>>
  /\ i = 0
  /\ result = <<>>
  /\ log = <<>>

NoText ==
  /\ message = <<>>
  /\ pending = <<>>
  /\ chunks = <<>>
  /\ where = <<>>
  /\ editing = FALSE

NoTts ==
  /\ calls = <<>>
  /\ playChainRef = 0
  /\ controllersRef = {}
  /\ nextStartRef = 0
  /\ lastTextRef = <<>>
  /\ ctxRef = FALSE
  /\ currentTime = 0
  /\ stops = 0

NoRoom == [exists |-> FALSE, userCount |-> 0]

NoRooms ==
  /\ roomRecord = NoRoom
  /\ roomUsers = {}
  /\ messageList = <<>>
  /\ requests = <<>>

NoClient ==
  /\ currentRoom = ""
  /\ roomMessages = <<>>
  /\ cache = <<>>
  /\ serverMessages = <<>>
  /\ net = {}
  /\ sent = 0
  /\ switches = 0

NoExt == NoTts /\ NoRooms /\ NoClient

\* ------------------------------------- SpecApply: one call, step by step
InitApply ==
  /\ NoExt
  /\ content \in Docs
  /\ objs \in Batches
  /\ objs0 = objs
  /\ edits = Ids(objs)
  /\ lines = <<>>
  /\ editsCopy = <<>>
  /\ i = 0
  /\ pc = "call"
  /\ result = <<>>
  /\ log = <<>>
  /\ NoText
  /\ NoChat

\* Entry: the early return on an empty batch, else split, copy and sort.
ApplyCall ==
  /\ UNCHANGED extVars
  /\ pc = "call"
  /\ IF Len(edits) = 0
     THEN /\ result' = EarlyReturn(content)
          /\ pc' = "done"
          /\ UNCHANGED <<lines, editsCopy>>
     ELSE /\ lines' = Split(content)
          /\ editsCopy' = SortByLine(edits, objs)
          /\ pc' = "loop"
          /\ UNCHANGED result
  /\ UNCHANGED <<content, edits, objs, objs0, i, log, textVars, chatVars>>

\* One iteration of the for loop.
ApplyStep ==
  /\ UNCHANGED extVars
  /\ pc = "loop"
  /\ i < Len(editsCopy)
  /\ LET n == ApplyIter([lines |-> lines, objs |-> objs, copy |-> editsCopy, i |-> i])
     IN /\ lines' = n.lines
        /\ objs' = n.objs
        /\ i' = n.i
        /\ log' = Append(log, [id |-> editsCopy[i + 1],
                               line |-> objs[editsCopy[i + 1]].line] @@ n.ev)
  /\ UNCHANGED <<content, edits, objs0, editsCopy, pc, result, textVars, chatVars>>

\* The loop is over: join and return.
ApplyReturn ==
  /\ UNCHANGED extVars
  /\ pc = "loop"
  /\ i >= Len(editsCopy)
  /\ result' = Join(lines)
  /\ pc' = "done"
  /\ UNCHANGED <<content, edits, objs, objs0, lines, editsCopy, i, log, textVars,
                 chatVars>>

NextApply == ApplyCall \/ ApplyStep \/ ApplyReturn

SpecApply == InitApply /\ [][NextApply]_vars

\* ------------- SpecText: one call on a free document text, step by step
InitText ==
  /\ NoExt
  /\ content \in Texts
  /\ objs \in TextBatches
  /\ objs0 = objs
  /\ edits = Ids(objs)
  /\ lines = <<>>
  /\ editsCopy = <<>>
  /\ i = 0
  /\ pc = "call"
  /\ result = <<>>
  /\ log = <<>>
  /\ NoText
  /\ NoChat

SpecText == InitText /\ [][NextApply]_vars

\* ------------------- SpecParse: a whole text parsed, its edits then applied
InitParse ==
  /\ NoExt
  /\ chunks \in UNION {[1..n -> Chunks] : n \in 0..MaxChunks}
  /\ message = Flatten(chunks)
  /\ pending = <<>>
  /\ where = <<>>
  /\ editing = FALSE
  /\ content \in Docs
  /\ pc = "parse"
  /\ NoCall
  /\ NoChat

\* const edits = parseTextEditMarkup(lastMessage.content)
Parse ==
  /\ UNCHANGED extVars
  /\ pc = "parse"
  /\ objs' = parseTextEditMarkup(message)
  /\ objs0' = objs'
  /\ edits' = Ids(objs')
  /\ where' = EditPositions(message)
  /\ pc' = "call"
  /\ UNCHANGED <<content, lines, editsCopy, i, result, log, message, pending,
                 chunks, editing, chatVars>>

NextParse == Parse \/ ApplyCall \/ ApplyStep \/ ApplyReturn

SpecParse == InitParse /\ [][NextParse]_vars

\* ------------- SpecOracle: a text streamed in, rendered after each piece
InitOracle ==
  /\ NoExt
  /\ chunks \in UNION {[1..n -> Chunks] : n \in 0..MaxChunks}
  /\ pending = Flatten(chunks)
  /\ message = <<>>
  /\ where = <<>>
  /\ editing = FALSE
  /\ content = <<>>
  /\ pc = "stream"
  /\ NoCall
  /\ NoChat

\* The next piece of the stream arrives and the message is rendered again.
Receive ==
  /\ UNCHANGED extVars
  /\ pc = "stream"
  /\ pending # <<>>
  /\ message' = Append(message, Head(pending))
  /\ pending' = Tail(pending)
  /\ editing' = hasIncompleteXmlTags(message')
  /\ UNCHANGED <<applyVars, chunks, where, chatVars>>

NextOracle == Receive

SpecOracle == InitOracle /\ [][NextOracle]_vars

\* ------ Spec: the markup-processing effect of ChatsAppComponent, with the
\* stream of the response, the poll of the TextEdit context and the awaits of
\* the processing function.  The document in localStorage is held as its text.
Greeting == <<"x">>
InsertText == InsertChunk(1, <<"A", NL, "B">>)

\* App-control markup: <app:launch id="textedit"/> and <app:close id="textedit"/>
\* are three atoms each, the head, the id attribute and the end of the tag.
OpenLaunch == "<app:launch"
OpenClose == "<app:close"
IdAttr == " id=\"textedit\""
LaunchText == <<OpenLaunch, IdAttr, SlashGt>>

\* /<app:(launch|close)/i.test(content)
ContainsAppControl(text) == \E p \in 1..Len(text) : text[p] \in {OpenLaunch, OpenClose}

\* The matches of one of the two regular expressions, from position p on.
RECURSIVE AppMatches(_, _, _, _)
AppMatches(head, type, m, p) ==
  IF p > Len(m) THEN <<>>
  ELSE IF At(m, p) = head /\ At(m, p + 1) = IdAttr /\ At(m, p + 2) = SlashGt
  THEN <<[type |-> type, id |-> "textedit"]>> \o AppMatches(head, type, m, p + 3)
  ELSE AppMatches(head, type, m, p + 1)

\* The launch operations, then the close operations.
parseAppControlMarkup(m) ==
  AppMatches(OpenLaunch, "launch", m, 1) \o AppMatches(OpenClose, "close", m, 1)

ChatTexts ==
  {<<"x">>, InsertText, DeleteChunk(1, Undefined) \o <<"x">>,
   DeleteChunk(1, Undefined) \o <<OpenInsert, LineAttr(1), Gt, "A">>, LaunchText}

Last(msgs) == msgs[Len(msgs)]

\* aiMessages.map(msg => msg.id === id ? {...msg, content} : msg)
WithContent(msgs, id, text) ==
  [k \in 1..Len(msgs) |->
     IF msgs[k].id = id THEN [msgs[k] EXCEPT !.content = text] ELSE msgs[k]]

ErrorNote == "_[Error]_"
SkippedNote == "_[Skipped TextEdit updates]_"

\* /<textedit:(insert|replace|delete)/i.test(content)
ContainsTextEditMarkup(text) == \E p \in 1..Len(text) : IsOpenHead(text[p])

\* getCurrentTextEditContent() || fallback
CurrentContentOr(fallback) ==
  IF storage.content # <<>> THEN storage.content ELSE fallback

Init ==
  /\ NoExt
  /\ pc = "chat"
  /\ content = <<>>
  /\ NoCall
  /\ NoText
  /\ \E old \in BOOLEAN, text \in {Greeting, InsertText, LaunchText \o InsertText} :
       aiMessages = <<[id |-> 1, role |-> "assistant", content |-> text, old |-> old]>>
  /\ nextId = 2
  /\ isLoading = FALSE
  /\ processedMessageIds = {}
  /\ initialMessagesLoaded = FALSE
  /\ isProcessingEdits = FALSE
  /\ textEditContext = NullContext
  /\ storage \in [content : Docs, path : BOOLEAN]
  /\ tasks = <<>>
  /\ dirty = TRUE
  /\ applyCount = [id \in 1..(1 + 2 * MaxTurns) |-> 0]
  /\ appOps = [id \in 1..(1 + 2 * MaxTurns) |-> 0]

\* The effect "mark initial messages as loaded": the processed ids after it.
MarkedInitialNone == processedMessageIds

MarkedInitial ==
  IF ~ initialMessagesLoaded /\ Len(aiMessages) > 0
  THEN processedMessageIds \cup {aiMessages[k].id : k \in 1..Len(aiMessages)}
  ELSE processedMessageIds

\* The effects run after a render in which one of their dependencies changed:
\* the marking of the initial messages, then the processing effect up to the
\* first await of its asynchronous function.
EffectRun ==
  /\ UNCHANGED extVars
  /\ pc = "chat"
  /\ dirty
  /\ initialMessagesLoaded' = (initialMessagesLoaded \/ Len(aiMessages) > 0)
  /\ LET done == MarkedInitial
         lastMessage == Last(aiMessages)
         parsed == parseTextEditMarkup(lastMessage.content)
         \* operations.forEach: launchApp or toggleApp, before the first await
         operated == [appOps EXCEPT ![lastMessage.id] =
                        @ + Len(parseAppControlMarkup(lastMessage.content))]
     IN IF Len(aiMessages) = 0 \/ lastMessage.role # "assistant"
        THEN /\ processedMessageIds' = done
             /\ dirty' = FALSE
             /\ UNCHANGED <<aiMessages, isProcessingEdits, storage, tasks, appOps>>
        ELSE IF lastMessage.old /\ lastMessage.id \notin done
        THEN /\ processedMessageIds' = done \cup {lastMessage.id}
             /\ dirty' = FALSE
             /\ UNCHANGED <<aiMessages, isProcessingEdits, storage, tasks, appOps>>
        ELSE IF lastMessage.id \in done \/ isLoading
        THEN /\ processedMessageIds' = done
             /\ dirty' = FALSE
             /\ UNCHANGED <<aiMessages, isProcessingEdits, storage, tasks, appOps>>
        ELSE IF ContainsTextEditMarkup(lastMessage.content) /\ Len(parsed) > 0
                /\ textEditContext.open
        THEN \* await ensureDocumentSaved(currentContent): with a file path it
             \* resolves at once and the 100 ms delay starts; without one the
             \* document is created and the function waits for fileSaved.
             LET currentContent == CurrentContentOr(textEditContext.content)
             IN /\ tasks' = Append(tasks,
                      [id |-> lastMessage.id, edits |-> parsed,
                       context |-> textEditContext, aiMessages |-> aiMessages,
                       currentContent |-> currentContent,
                       at |-> IF storage.path THEN "delay" ELSE "save"])
                /\ storage' = IF storage.path THEN storage
                              ELSE [content |-> currentContent, path |-> TRUE]
                /\ isProcessingEdits' = TRUE
                /\ processedMessageIds' = done
                /\ dirty' = FALSE
                /\ appOps' = operated
                /\ UNCHANGED aiMessages
        ELSE IF ContainsTextEditMarkup(lastMessage.content) /\ Len(parsed) > 0
        THEN \* no TextEdit context: the note is added and the message marked
             /\ aiMessages' = WithContent(aiMessages, lastMessage.id,
                                          Append(lastMessage.content, SkippedNote))
             /\ processedMessageIds' = done \cup {lastMessage.id}
             /\ isProcessingEdits' = FALSE
             /\ dirty' = TRUE
             /\ appOps' = operated
             /\ UNCHANGED <<storage, tasks>>
        ELSE /\ processedMessageIds' = done \cup {lastMessage.id}
             /\ isProcessingEdits' = FALSE
             /\ dirty' = FALSE
             /\ appOps' = operated
             /\ UNCHANGED <<aiMessages, storage, tasks>>
  /\ UNCHANGED <<applyVars, textVars, isLoading, nextId, textEditContext, applyCount>>

Without(ts, k) == SubSeq(ts, 1, k - 1) \o SubSeq(ts, k + 1, Len(ts))

\* ensureDocumentSaved resolves: the fileSaved event came (ok) or the 2 s
\* timeout did.  On failure the error note is written and the message marked.
TaskSaved ==
  /\ UNCHANGED extVars
  /\ pc = "chat"
  /\ \E k \in 1..Len(tasks), ok \in BOOLEAN :
       /\ tasks[k].at = "save"
       /\ IF ok
          THEN /\ tasks' = [tasks EXCEPT ![k].at = "delay"]
               /\ UNCHANGED <<aiMessages, processedMessageIds, isProcessingEdits, dirty>>
          ELSE /\ tasks' = Without(tasks, k)
               /\ aiMessages' =
                    WithContent(tasks[k].aiMessages, tasks[k].id,
                                Append(Last(tasks[k].aiMessages).content, ErrorNote))
               /\ processedMessageIds' = processedMessageIds \cup {tasks[k].id}
               /\ isProcessingEdits' = FALSE
               /\ dirty' = TRUE
  /\ UNCHANGED <<applyVars, textVars, isLoading, nextId, initialMessagesLoaded,
                 textEditContext, storage, applyCount, appOps>>

\* The 100 ms delay is over: the edits are applied to the current document,
\* the document is written back and the message marked as processed.
TaskApply ==
  /\ UNCHANGED extVars
  /\ pc = "chat"
  /\ \E k \in 1..Len(tasks) :
       /\ tasks[k].at = "delay"
       /\ LET contentAfterSave == CurrentContentOr(tasks[k].currentContent)
              newContent == applyTextEditChanges(contentAfterSave, tasks[k].edits)
          IN /\ storage' = [storage EXCEPT !.content = newContent]
             /\ textEditContext' = [tasks[k].context EXCEPT !.content = newContent]
             /\ applyCount' = [applyCount EXCEPT ![tasks[k].id] = @ + 1]
       /\ processedMessageIds' = processedMessageIds \cup {tasks[k].id}
       /\ tasks' = Without(tasks, k)
  /\ isProcessingEdits' = FALSE
  /\ dirty' = TRUE
  /\ UNCHANGED <<applyVars, textVars, aiMessages, isLoading, nextId,
                 initialMessagesLoaded, appOps>>

\* The user submits a message: it is appended and a response starts to stream.
Submit ==
  /\ UNCHANGED extVars
  /\ pc = "chat"
  /\ ~ isLoading
  /\ nextId <= 2 * MaxTurns
  /\ aiMessages' = Append(aiMessages,
       [id |-> nextId, role |-> "user", content |-> <<"x">>, old |-> FALSE])
  /\ nextId' = nextId + 1
  /\ isLoading' = TRUE
  /\ pending' \in ChatTexts
  /\ dirty' = TRUE
  /\ UNCHANGED <<applyVars, message, chunks, where, editing, processedMessageIds,
                 initialMessagesLoaded, isProcessingEdits, textEditContext, storage,
                 tasks, applyCount, appOps>>

\* The next piece of the response arrives.
StreamChunk ==
  /\ UNCHANGED extVars
  /\ pc = "chat"
  /\ isLoading
  /\ pending # <<>>
  /\ IF Last(aiMessages).role = "user"
     THEN /\ aiMessages' = Append(aiMessages,
               [id |-> nextId, role |-> "assistant", content |-> <<Head(pending)>>,
                old |-> FALSE])
          /\ nextId' = nextId + 1
     ELSE /\ aiMessages' = WithContent(aiMessages, Last(aiMessages).id,
                                       Append(Last(aiMessages).content, Head(pending)))
          /\ UNCHANGED nextId
  /\ pending' = Tail(pending)
  /\ dirty' = TRUE
  /\ UNCHANGED <<applyVars, message, chunks, where, editing, isLoading,
                 processedMessageIds, initialMessagesLoaded, isProcessingEdits,
                 textEditContext, storage, tasks, applyCount, appOps>>

\* The response ends: the stream is over, or it stops short (stop, an error).
StreamEnd ==
  /\ UNCHANGED extVars
  /\ pc = "chat"
  /\ isLoading
  /\ Last(aiMessages).role = "assistant"
  /\ isLoading' = FALSE
  /\ pending' = <<>>
  /\ dirty' = TRUE
  /\ UNCHANGED <<applyVars, message, chunks, where, editing, aiMessages, nextId,
                 processedMessageIds, initialMessagesLoaded, isProcessingEdits,
                 textEditContext, storage, tasks, applyCount, appOps>>

\* checkTextEditContext, at once and every 2 s: the context follows the
\* document of TextEdit when its file name or content changed.
PolledContext ==
  [open |-> TRUE, fileName |-> IF storage.path THEN "saved" ELSE "Untitled",
   content |-> storage.content]

PollContext ==
  /\ UNCHANGED extVars
  /\ pc = "chat"
  /\ textEditContext # PolledContext
  /\ textEditContext' = PolledContext
  /\ dirty' = TRUE
  /\ UNCHANGED <<applyVars, textVars, aiMessages, isLoading, nextId,
                 processedMessageIds, initialMessagesLoaded, isProcessingEdits,
                 storage, tasks, applyCount, appOps>>

Next ==
  \/ EffectRun
  \/ TaskSaved
  \/ TaskApply
  \/ Submit
  \/ StreamChunk
  \/ StreamEnd
  \/ PollContext

Spec == Init /\ [][Next]_vars


\* ------------- SpecTts: the hook useTtsQueue.  Each accepted speak() chains
\* a callback on playChainRef; a callback runs from one await to the next; the
\* audio clock advances between the steps.
SpeakTexts == {<<"a">>, <<" ", "a">>, <<"b">>, <<" ">>}

\* String.prototype.trim
RECURSIVE TrimSpaces(_)
TrimSpaces(t) ==
  IF t = <<>> THEN t
  ELSE IF t[1] = " " THEN TrimSpaces(Tail(t))
  ELSE IF t[Len(t)] = " " THEN TrimSpaces(SubSeq(t, 1, Len(t) - 1))
  ELSE t

Durations == 1..MaxDur

\* The promise of callback k is settled: the next callback of its chain may run.
Finished(k) == calls[k].stage \in {"scheduled", "failed", "aborted"}

StartTimeNow(now, next) == now

\* const start = Math.max(now, nextStartRef.current)
StartTime(now, next) == Max(now, next)

InitTts ==
  /\ pc = "tts"
  /\ content = <<>>
  /\ NoCall
  /\ NoText
  /\ NoChat
  /\ NoTts
  /\ NoRooms
  /\ NoClient

\* speak(text): blank and repeated texts are dropped, any other text chains a
\* callback after the tail of playChainRef.  Nothing else happens in the call.
speak ==
  /\ pc = "tts"
  /\ Len(calls) < MaxSpeak
  /\ \E text \in SpeakTexts :
       LET trimmedText == TrimSpaces(text)
       IN IF trimmedText = <<>> \/ trimmedText = lastTextRef
          THEN UNCHANGED <<calls, playChainRef, lastTextRef>>
          ELSE /\ lastTextRef' = trimmedText
               /\ calls' = Append(calls,
                    [text |-> trimmedText, prev |-> playChainRef, stage |-> "queued",
                     epoch |-> stops, fetchedAt |-> Undefined, schedAt |-> Undefined,
                     now |-> Undefined, start |-> Undefined, dur |-> 0])
               /\ playChainRef' = Len(calls) + 1
  /\ UNCHANGED <<applyVars, textVars, chatVars, roomVars, clientVars,
                 controllersRef, nextStartRef, ctxRef,
                 currentTime, stops>>

\* The callback of call k gets its turn: the promise it was chained on is
\* settled.  It creates its controller and sends the request.
ChainTurn ==
  /\ pc = "tts"
  /\ \E k \in 1..Len(calls) :
       /\ calls[k].stage = "queued"
       /\ IF calls[k].prev = 0 THEN TRUE ELSE Finished(calls[k].prev)
       /\ calls' = [calls EXCEPT ![k].stage = "fetch", ![k].fetchedAt = stops]
       /\ controllersRef' = controllersRef \cup {k}
  /\ UNCHANGED <<applyVars, textVars, chatVars, roomVars, clientVars,
                 playChainRef, nextStartRef,
                 lastTextRef, ctxRef, currentTime, stops>>

\* fetch resolves: the controller leaves the set; a response that is not ok
\* ends the callback.
FetchResolved ==
  /\ pc = "tts"
  /\ \E k \in 1..Len(calls), ok \in BOOLEAN :
       /\ calls[k].stage = "fetch"
       /\ calls' = [calls EXCEPT ![k].stage = IF ok THEN "buffer" ELSE "failed"]
       /\ controllersRef' = controllersRef \ {k}
  /\ UNCHANGED <<applyVars, textVars, chatVars, roomVars, clientVars,
                 playChainRef, nextStartRef,
                 lastTextRef, ctxRef, currentTime, stops>>

\* res.arrayBuffer() resolves: ensureContext(), then resume and decodeAudioData.
Buffered ==
  /\ pc = "tts"
  /\ \E k \in 1..Len(calls) :
       /\ calls[k].stage = "buffer"
       /\ calls' = [calls EXCEPT ![k].stage = "decode"]
  /\ ctxRef' = TRUE
  /\ UNCHANGED <<applyVars, textVars, chatVars, roomVars, clientVars,
                 playChainRef, controllersRef,
                 nextStartRef, lastTextRef, currentTime, stops>>

\* decodeAudioData resolves and the clip is scheduled, or it rejects.
Decoded ==
  /\ pc = "tts"
  /\ \E k \in 1..Len(calls), ok \in BOOLEAN, duration \in Durations :
       /\ calls[k].stage = "decode"
       /\ IF ok
          THEN LET start == StartTime(currentTime, nextStartRef)
               IN /\ calls' = [calls EXCEPT ![k].stage = "scheduled",
                                            ![k].schedAt = stops,
                                            ![k].now = currentTime,
                                            ![k].start = start,
                                            ![k].dur = duration]
                  /\ nextStartRef' = start + duration
          ELSE /\ calls' = [calls EXCEPT ![k].stage = "failed"]
               /\ UNCHANGED nextStartRef
  /\ UNCHANGED <<applyVars, textVars, chatVars, roomVars, clientVars,
                 playChainRef, controllersRef,
                 lastTextRef, ctxRef, currentTime, stops>>

\* stop(): the controllers in the set are aborted (their fetch rejects with
\* AbortError, which the callback swallows), the refs are reset.
stop ==
  /\ pc = "tts"
  /\ stops < MaxStops
  /\ calls' = [k \in 1..Len(calls) |->
                 IF k \in controllersRef THEN [calls[k] EXCEPT !.stage = "aborted"]
                 ELSE calls[k]]
  /\ controllersRef' = {}
  /\ playChainRef' = 0
  /\ nextStartRef' = IF ctxRef THEN currentTime ELSE nextStartRef
  /\ lastTextRef' = <<>>
  /\ stops' = stops + 1
  /\ UNCHANGED <<applyVars, textVars, chatVars, roomVars, clientVars,
                 ctxRef, currentTime>>

\* The audio clock of the context advances.
Tick ==
  /\ pc = "tts"
  /\ ctxRef
  /\ currentTime < MaxTime
  /\ currentTime' = currentTime + 1
  /\ UNCHANGED <<applyVars, textVars, chatVars, roomVars, clientVars,
                 calls, playChainRef, controllersRef,
                 nextStartRef, lastTextRef, ctxRef, stops>>

NextTts ==
  \/ speak
  \/ ChainTurn
  \/ FetchResolved
  \/ Buffered
  \/ Decoded
  \/ stop
  \/ Tick

SpecTts == InitTts /\ [][NextTts]_vars

\* ------------- SpecRooms: the handlers of api/chat-rooms.js for one room.
\* A request advances by one Redis command at a time; the commands of the
\* requests in flight interleave freely.  The users exist throughout.
Usernames == {"u1", "u2"}
Ops == {"joinRoom", "leaveRoom", "deleteRoom", "sendMessage"}

FirstStep(op) == IF op \in {"joinRoom", "leaveRoom"} THEN "get" ELSE "exists"

\* The request k after a step: its position and what it has read.
Moved(k, at) == [requests EXCEPT ![k].at = at]
Returned(k, status) == [requests EXCEPT ![k].at = "done", ![k].status = status]

InitRooms ==
  /\ pc = "rooms"
  /\ content = <<>>
  /\ NoCall
  /\ NoText
  /\ NoChat
  /\ NoTts
  /\ NoClient
  /\ roomUsers \in SUBSET Usernames
  /\ roomRecord = [exists |-> TRUE, userCount |-> Cardinality(roomUsers)]
  /\ messageList = <<>>
  /\ requests = <<>>

\* A request for the room arrives.
NewRequest ==
  /\ pc = "rooms"
  /\ Len(requests) < MaxRequests
  /\ \E op \in Ops, username \in Usernames \cup {""} :
       /\ (op = "deleteRoom") = (username = "")
       /\ requests' = Append(requests,
            [op |-> op, username |-> username, at |-> FirstStep(op),
             roomData |-> NoRoom, userCount |-> 0, status |-> 0])
  /\ UNCHANGED <<applyVars, textVars, chatVars, ttsVars, clientVars, roomRecord,
                 roomUsers, messageList>>

\* scard, then set(room, {...roomData, userCount}): the end of join and leave.
CountAndSet(k) ==
  IF requests[k].at = "scard"
  THEN /\ requests' = [requests EXCEPT ![k].at = "set",
                                       ![k].userCount = Cardinality(roomUsers)]
       /\ UNCHANGED <<roomRecord, roomUsers>>
  ELSE /\ requests[k].at = "set"
       /\ roomRecord' = [requests[k].roomData EXCEPT !.userCount = requests[k].userCount]
       /\ requests' = Returned(k, 200)
       /\ UNCHANGED roomUsers

handleJoinRoom ==
  /\ pc = "rooms"
  /\ \E k \in 1..Len(requests) :
       /\ requests[k].op = "joinRoom"
       /\ requests[k].at # "done"
       /\ IF requests[k].at = "get"
          THEN /\ requests' = IF roomRecord.exists
                              THEN [requests EXCEPT ![k].at = "sadd",
                                                    ![k].roomData = roomRecord]
                              ELSE Returned(k, 404)
               /\ UNCHANGED <<roomRecord, roomUsers>>
          ELSE IF requests[k].at = "sadd"
          THEN /\ roomUsers' = roomUsers \cup {requests[k].username}
               /\ requests' = Moved(k, "scard")
               /\ UNCHANGED roomRecord
          ELSE CountAndSet(k)
  /\ UNCHANGED <<applyVars, textVars, chatVars, ttsVars, clientVars, messageList>>

handleLeaveRoom ==
  /\ pc = "rooms"
  /\ \E k \in 1..Len(requests) :
       /\ requests[k].op = "leaveRoom"
       /\ requests[k].at # "done"
       /\ IF requests[k].at = "get"
          THEN /\ requests' = IF roomRecord.exists
                              THEN [requests EXCEPT ![k].at = "srem",
                                                    ![k].roomData = roomRecord]
                              ELSE Returned(k, 404)
               /\ UNCHANGED <<roomRecord, roomUsers>>
          ELSE IF requests[k].at = "srem"
          THEN LET removed == requests[k].username \in roomUsers
               IN /\ roomUsers' = roomUsers \ {requests[k].username}
                  /\ requests' = IF removed THEN Moved(k, "scard") ELSE Returned(k, 200)
                  /\ UNCHANGED roomRecord
          ELSE CountAndSet(k)
  /\ UNCHANGED <<applyVars, textVars, chatVars, ttsVars, clientVars, messageList>>

\* exists, then the pipeline of the three del commands, taken as one step.
handleDeleteRoom ==
  /\ pc = "rooms"
  /\ \E k \in 1..Len(requests) :
       /\ requests[k].op = "deleteRoom"
       /\ requests[k].at # "done"
       /\ IF requests[k].at = "exists"
          THEN /\ requests' = IF roomRecord.exists THEN Moved(k, "del")
                              ELSE Returned(k, 404)
               /\ UNCHANGED <<roomRecord, roomUsers, messageList>>
          ELSE /\ roomRecord' = NoRoom
               /\ roomUsers' = {}
               /\ messageList' = <<>>
               /\ requests' = Returned(k, 200)
  /\ UNCHANGED <<applyVars, textVars, chatVars, ttsVars, clientVars>>

handleSendMessage ==
  /\ pc = "rooms"
  /\ \E k \in 1..Len(requests) :
       /\ requests[k].op = "sendMessage"
       /\ requests[k].at # "done"
       /\ IF requests[k].at = "exists"
          THEN /\ requests' = IF roomRecord.exists THEN Moved(k, "lpush")
                              ELSE Returned(k, 404)
               /\ UNCHANGED messageList
          ELSE IF requests[k].at = "lpush"
          THEN /\ messageList' =
                    <<[id |-> k, username |-> requests[k].username]>> \o messageList
               /\ requests' = Moved(k, "ltrim")
          ELSE /\ messageList' = SubSeq(messageList, 1, Min(Len(messageList), KeepLatest))
               /\ requests' = Returned(k, 201)
  /\ UNCHANGED <<applyVars, textVars, chatVars, ttsVars, clientVars, roomRecord,
                 roomUsers>>

NextRooms ==
  \/ NewRequest
  \/ handleJoinRoom
  \/ handleLeaveRoom
  \/ handleDeleteRoom
  \/ handleSendMessage

SpecRooms == InitRooms /\ [][NextRooms]_vars

\* ------------- SpecClient: the room chat of ChatsAppComponent.  The user
\* switches rooms and sends messages; the responses of getMessages and
\* sendMessage and the room-message events of Pusher arrive at any later time.
\* The server stores a message as soon as it is sent.
RoomIds == {"A", "B"}

TempId(n) == "t" \o ToString(n)
ServerId(n) == "s" \o ToString(n)

\* The message sendRoomMessage adds at once, and the one the server makes of it.
TempMessage(n, roomId) == [id |-> TempId(n), roomId |-> roomId, timestamp |-> 2 * n - 1]
ServerMessage(n, roomId) == [id |-> ServerId(n), roomId |-> roomId, timestamp |-> 2 * n]

\* The message each room holds from the start.
FirstMessage(roomId) == [id |-> "s" \o roomId, roomId |-> roomId, timestamp |-> 0]

\* messages.sort((a, b) => a.timestamp - b.timestamp), a stable sort
InsertByTimestamp(sorted, m) ==
  LET k == Cardinality({j \in 1..Len(sorted) : sorted[j].timestamp <= m.timestamp})
  IN SubSeq(sorted, 1, k) \o <<m>> \o SubSeq(sorted, k + 1, Len(sorted))

RECURSIVE SortByTimestamp(_)
SortByTimestamp(ms) ==
  IF ms = <<>> THEN <<>>
  ELSE InsertByTimestamp(SortByTimestamp(SubSeq(ms, 1, Len(ms) - 1)), ms[Len(ms)])

HasId(ms, id) == \E j \in 1..Len(ms) : ms[j].id = id

Flying(kind) == {x \in net : x.kind = kind /\ x.state = "flying"}
Landed(x, state) == (net \ {x}) \cup {[x EXCEPT !.state = state]}

InitClient ==
  /\ pc = "client"
  /\ content = <<>>
  /\ NoCall
  /\ NoText
  /\ NoChat
  /\ NoTts
  /\ NoRooms
  /\ currentRoom = ""
  /\ roomMessages = <<>>
  /\ serverMessages = [r \in RoomIds |-> <<FirstMessage(r)>>]
  /\ cache = [r \in RoomIds |-> <<FirstMessage(r)>>]
  /\ net = {}
  /\ sent = 0
  /\ switches = 0

\* setCurrentRoom(newRoom) and the effect it triggers: fetchRoomMessages shows
\* the cached messages and sends the getMessages request.
setCurrentRoom ==
  /\ pc = "client"
  /\ switches < MaxSwitches
  /\ \E newRoom \in (RoomIds \cup {""}) \ {currentRoom} :
       /\ currentRoom' = newRoom
       /\ IF newRoom # ""
          THEN /\ roomMessages' = cache[newRoom]
               /\ net' = net \cup {[kind |-> "fetch", roomId |-> newRoom,
                                     n |-> switches, state |-> "flying"]}
          ELSE /\ roomMessages' = <<>>
               /\ UNCHANGED net
  /\ switches' = switches + 1
  /\ UNCHANGED <<applyVars, textVars, chatVars, ttsVars, roomVars, cache,
                 serverMessages, sent>>

\* The response of getMessages arrives: the messages not yet in the list are
\* merged into it and the list is saved for the room that was fetched.
fetchRoomMessages ==
  /\ pc = "client"
  /\ \E x \in Flying("fetch"), ok \in BOOLEAN :
       LET fetchedMessages == serverMessages[x.roomId]
           newMessages == SelectSeq(fetchedMessages,
                                    LAMBDA m : ~ HasId(roomMessages, m.id))
           mergedMessages == SortByTimestamp(roomMessages \o newMessages)
       IN /\ net' = net \ {x}
          /\ IF ok /\ Len(newMessages) > 0
             THEN /\ roomMessages' = mergedMessages
                  /\ cache' = [cache EXCEPT ![x.roomId] = mergedMessages]
             ELSE UNCHANGED <<roomMessages, cache>>
  /\ UNCHANGED <<applyVars, textVars, chatVars, ttsVars, roomVars, currentRoom,
                 serverMessages, sent, switches>>

\* sendRoomMessage up to its fetch: the temporary message is shown; the
\* server stores its message and triggers the room-message event.
sendRoomMessage ==
  /\ pc = "client"
  /\ currentRoom # ""
  /\ sent < MaxSends
  /\ sent' = sent + 1
  /\ roomMessages' = SortByTimestamp(Append(roomMessages, TempMessage(sent', currentRoom)))
  /\ serverMessages' = [serverMessages EXCEPT
                          ![currentRoom] = Append(@, ServerMessage(sent', currentRoom))]
  /\ net' = net \cup {[kind |-> k, roomId |-> currentRoom, n |-> sent',
                        state |-> "flying"] : k \in {"send", "pusher"}}
  /\ UNCHANGED <<applyVars, textVars, chatVars, ttsVars, roomVars, currentRoom, cache,
                 switches>>

\* The response of sendMessage arrives: the temporary message is replaced by
\* the message of the server, and the list saved for the room it was sent to.
SendResponse ==
  /\ pc = "client"
  /\ \E x \in Flying("send"), ok \in BOOLEAN :
       LET withoutTemp == SelectSeq(roomMessages, LAMBDA m : m.id # TempId(x.n))
           updated == IF HasId(withoutTemp, ServerId(x.n)) THEN withoutTemp
                      ELSE SortByTimestamp(Append(withoutTemp, ServerMessage(x.n, x.roomId)))
       IN /\ net' = Landed(x, IF ok THEN "ok" ELSE "failed")
          /\ IF ok
             THEN /\ roomMessages' = updated
                  /\ cache' = [cache EXCEPT ![x.roomId] = updated]
             ELSE UNCHANGED <<roomMessages, cache>>
  /\ UNCHANGED <<applyVars, textVars, chatVars, ttsVars, roomVars, currentRoom,
                 serverMessages, sent, switches>>

\* The handler of room-message, bound with the room currently selected.
RoomMessageEvent ==
  /\ pc = "client"
  /\ \E x \in Flying("pusher") :
       LET updatedMessages ==
             SortByTimestamp(Append(roomMessages, ServerMessage(x.n, x.roomId)))
       IN /\ net' = Landed(x, "ok")
          /\ IF currentRoom # "" /\ x.roomId = currentRoom
                /\ ~ HasId(roomMessages, ServerId(x.n))
             THEN /\ roomMessages' = updatedMessages
                  /\ cache' = [cache EXCEPT ![x.roomId] = updatedMessages]
             ELSE UNCHANGED <<roomMessages, cache>>
  /\ UNCHANGED <<applyVars, textVars, chatVars, ttsVars, roomVars, currentRoom,
                 serverMessages, sent, switches>>

NextClient ==
  \/ setCurrentRoom
  \/ fetchRoomMessages
  \/ sendRoomMessage
  \/ SendResponse
  \/ RoomMessageEvent

SpecClient == InitClient /\ [][NextClient]_vars

\* ------------------------------------------------ claims on SpecApply
CurrentEdit == objs[editsCopy[i + 1]]
Stepping == pc = "loop" /\ i < Len(editsCopy)

\* The directives of batch es applied simultaneously to the original lines ls:
\* in front of original line k come the payload lines of the inserts that name
\* k; line k itself is replaced by the payload of the replace that starts at k,
\* dropped if a replace or delete range covers it, kept otherwise.
Covers(e, k) ==
  e.type \in {"replace", "delete"} /\ e.line <= k /\ k <= e.line + e.count - 1

RECURSIVE PayloadsAt(_, _, _, _)
PayloadsAt(es, n, type, k) ==
  IF n = 0 THEN <<>>
  ELSE PayloadsAt(es, n - 1, type, k)
       \o (IF es[n].type = type /\ es[n].line = k THEN Split(es[n].content) ELSE <<>>)

RECURSIVE Simultaneous(_, _, _)
Simultaneous(ls, es, k) ==
  IF k > Len(ls) + 1 THEN <<>>
  ELSE PayloadsAt(es, Len(es), "insert", k)
       \o (IF k > Len(ls) THEN <<>>
           ELSE IF \E n \in 1..Len(es) : Covers(es[n], k)
                THEN PayloadsAt(es, Len(es), "replace", k)
                ELSE <<ls[k]>>)
       \o Simultaneous(ls, es, k + 1)

\* The batch es is well formed for the lines ls: non-empty payloads, pairwise
\* distinct lines, every line and range inside the document, ranges pairwise
\* disjoint and holding no insert point.
WellFormedBatch(ls, es) ==
  /\ \A n \in 1..Len(es) :
       /\ es[n].type \in {"insert", "replace"} => es[n].content # <<>>
       /\ es[n].type = "insert" => es[n].line \in 1..(Len(ls) + 1)
       /\ es[n].type \in {"replace", "delete"} =>
            /\ es[n].count >= 1
            /\ es[n].line >= 1
            /\ es[n].line + es[n].count - 1 <= Len(ls)
  /\ \A n, m \in 1..Len(es) :
       n # m =>
         /\ es[n].line # es[m].line
         /\ ~ Covers(es[n], es[m].line)

\* C1: for a well-formed batch, in any order, the returned text is the
\* original document with all directives applied simultaneously in the line
\* numbering of the original document.
C1_OriginalNumbering ==
  (pc = "done" /\ WellFormedBatch(Split(content), objs0))
    => result = Join(Simultaneous(Split(content), objs0, 1))

\* An insert of two lines listed after the replace it shifts, both applied.
C1_Witness ==
  /\ pc = "done"
  /\ WellFormedBatch(Split(content), objs0)
  /\ Len(objs0) = 2
  /\ objs0[1].type = "replace" /\ objs0[1].line = 3
  /\ objs0[2].type = "insert" /\ objs0[2].line = 1
  /\ Len(Split(objs0[2].content)) = 2
  /\ Len(Split(result)) = 5

\* C3: a replace or delete whose 0-based index is not below the number of
\* lines when it is reached changes neither the working lines nor the line of
\* any directive; a batch of only such directives returns the input text.
C3_OutOfRangeSkipped ==
  /\ [][(Stepping /\ CurrentEdit.type \in {"replace", "delete"}
                  /\ CurrentEdit.line - 1 >= Len(lines))
          => (lines' = lines /\ objs' = objs)]_vars
  /\ []((/\ pc = "done"
         /\ Len(objs0) > 0
         /\ \A n \in 1..Len(objs0) :
              /\ objs0[n].type \in {"replace", "delete"}
              /\ objs0[n].line - 1 >= Len(Split(content)))
        => result = content)

\* A replace just past the end of a three-line document has been skipped.
C3_Witness ==
  /\ pc = "done"
  /\ Len(Split(content)) = 3
  /\ Len(objs0) = 1
  /\ objs0[1].type = "replace" /\ objs0[1].line = 4 /\ objs0[1].content # <<>>
  /\ log[1].what = "skipped"
  /\ result = content

C7_StableAscending ==
  /\ \A a, b \in 1..Len(log) :
       a < b =>
         /\ objs0[log[a].id].line <= objs0[log[b].id].line
         /\ objs0[log[a].id].line = objs0[log[b].id].line => log[a].id < log[b].id
  /\ pc = "done" => {log[a].id : a \in 1..Len(log)} = 1..Len(objs0)
  /\ pc = "done" => Len(log) = Len(objs0)

\* Two directives of the same line, the first of the batch considered first.
C7_Witness ==
  /\ pc = "done"
  /\ Len(objs0) = 2
  /\ objs0[1].line = objs0[2].line
  /\ objs0[1].type = "delete" /\ objs0[2].type = "insert"
  /\ log[1].id = 1 /\ log[2].id = 2
  /\ log[1].what = "applied" /\ log[2].what = "applied"

Later == (i + 2)..Len(editsCopy)

\* C17: after an insert at line L has been applied, every directive not yet
\* considered whose line is >= L, a replace or delete at exactly L included,
\* is moved down by the number of inserted lines (directives that name a line
\* of the document, and inserts).
C17_ShiftFromInsertLine ==
  [][(/\ Stepping
      /\ CurrentEdit.type = "insert"
      /\ CurrentEdit.content # <<>>
      /\ ~ InsertInvalid(CurrentEdit, lines))
     => \A j \in Later :
          (/\ objs[editsCopy[j]].line >= CurrentEdit.line
           /\ (objs[editsCopy[j]].type = "insert"
               \/ objs[editsCopy[j]].line <= Len(lines)))
          => objs'[editsCopy[j]].line
               = objs[editsCopy[j]].line + Len(Split(CurrentEdit.content))]_vars

\* C18: after a replace or delete at line L that removed e lines and changed
\* the length of the document, exactly the directives not yet considered whose
\* line is > L + e - 1 are shifted, e being the truncated count.
C18_BoundaryFromEffectiveCount ==
  [][(/\ Stepping
      /\ CurrentEdit.type \in {"replace", "delete"}
      /\ ApplyEdit(CurrentEdit, lines).ev.what = "applied"
      /\ Len(lines') # Len(lines))
     => LET e == ApplyEdit(CurrentEdit, lines).ev.removed
            shift == Len(lines') - Len(lines)
        IN \A j \in Later :
             LET d == objs[editsCopy[j]]
             IN IF d.line > CurrentEdit.line + e - 1
                THEN objs'[editsCopy[j]].line = AdjustedLine(d, shift, Len(lines'))
                ELSE objs'[editsCopy[j]].line = d.line]_vars

\* C19: every insert or replace that passes the validity check changes the
\* document, whatever its payload: the payload split on line breaks is at
\* least one line, an insert makes the document that many lines longer and a
\* replace puts those lines in the place of the lines it removes.
C19_EveryPayloadMutates ==
  [][(/\ Stepping
      /\ CurrentEdit.type \in {"insert", "replace"}
      /\ ~ InsertInvalid(CurrentEdit, lines)
      /\ ~ RangeInvalid(CurrentEdit, lines))
     => LET newLines == Split(CurrentEdit.content)
            index == Min(CurrentEdit.line - 1, Len(lines))
            e == IF CurrentEdit.type = "insert" THEN 0
                 ELSE Min(CountOr1(CurrentEdit), Len(lines) - index)
        IN /\ Len(newLines) >= 1
           /\ lines' = SubSeq(lines, 1, index) \o newLines
                         \o SubSeq(lines, index + e + 1, Len(lines))]_vars

\* C20: in a batch whose inserts carry a payload and name lines of the
\* document and whose replaces and deletes name lines past its end, every
\* replace and delete is beyond the end when it is reached (each insert moves
\* it and the end down alike): it is skipped and the original lines remain.
C20_BeyondEndSkipped ==
  (/\ pc = "done"
   /\ \A k \in 1..Len(objs0) :
        /\ objs0[k].type = "insert" =>
             (objs0[k].content # <<>> /\ objs0[k].line <= Len(Split(content)))
        /\ objs0[k].type \in {"replace", "delete"} =>
             objs0[k].line > Len(Split(content)))
  => /\ \A a \in 1..Len(log) :
          log[a].type \in {"replace", "delete"} => log[a].what # "applied"
     /\ \A k \in 1..Len(Split(content)) :
          \E n \in 1..Len(Split(result)) : Split(result)[n] = Split(content)[k]

\* C21: after a directive that changed the length of the document by shift,
\* every directive not yet considered beyond the boundary has the line
\* max(1, old line + shift), a replace or delete past the end the number of
\* lines (at least 1); the directives up to the boundary, those already
\* considered, and every other field are left as they were.
C21_ShiftClamps ==
  [][(Stepping /\ Len(lines') # Len(lines))
     => LET shift == Len(lines') - Len(lines)
            boundary == IF CurrentEdit.type = "insert" THEN CurrentEdit.line
                        ELSE CurrentEdit.line + CountOr1(CurrentEdit) - 1
        IN \A j \in 1..Len(editsCopy) :
             LET d == objs[editsCopy[j]]
                 moved == Max(1, d.line + shift)
             IN IF j \in Later /\ d.line > boundary
                THEN objs'[editsCopy[j]] =
                       [d EXCEPT !.line =
                          IF d.type # "insert" /\ moved > Len(lines')
                          THEN Max(1, Len(lines')) ELSE moved]
                ELSE objs'[editsCopy[j]] = d]_vars

\* An insert of two lines has moved a replace past the end of the document,
\* and the replace now holds the number of the last line.
C21_Witness ==
  /\ pc = "loop"
  /\ i = 1
  /\ log[1].type = "insert" /\ log[1].what = "applied" /\ log[1].inserted = 2
  /\ \E k \in 1..Len(objs0) :
       /\ objs0[k].type = "replace"
       /\ objs0[k].line + 2 > Len(lines)
       /\ objs[k].line = Len(lines)
       /\ objs[k].line # objs0[k].line

\* C23: the lines at which the directives of one call are applied, one after
\* the other, never decrease.
C23_LowToHigh ==
  \A a, b \in 1..Len(log) :
    (a < b /\ log[a].what = "applied" /\ log[b].what = "applied")
      => log[a].index <= log[b].index

\* C24: when the call is over the caller's array holds the same edit objects
\* in the same order, each with the line, count and content it had.
C24_BatchNotModified ==
  pc = "done" => (edits = Ids(objs0) /\ objs = objs0)

\* ------------------------------------------------- claims on SpecText
\* C14: splitting a document text on line breaks and joining the pieces with
\* a line break gives the text back; a call in which every directive is
\* skipped returns its input.
C14_RoundTrip ==
  /\ Join(Split(content)) = content
  /\ pc = "loop" => Join(Split(Join(lines))) = Join(lines)
  /\ (pc = "done" /\ \A a \in 1..Len(log) : log[a].what = "skipped")
       => result = content

\* A text with an empty first line and a trailing break came back from a call
\* that skipped both its directives.
C14_Witness ==
  /\ pc = "done"
  /\ content = <<NL, "a", NL>>
  /\ Len(Split(content)) = 3
  /\ Len(log) = 2
  /\ \A a \in 1..Len(log) : log[a].what = "skipped"
  /\ result = content

\* C15: a call with an empty batch returns the document text it was given,
\* whatever the text, and considers no directive.
C15_EmptyBatchUnchanged ==
  (pc = "done" /\ Len(objs0) = 0) =>
    /\ result = content
    /\ Split(result) = Split(content)
    /\ log = <<>>

\* A call with an empty batch on a text of three lines, two of them empty,
\* is over.
C15_Witness ==
  /\ pc = "done"
  /\ Len(objs0) = 0
  /\ content = <<NL, "a", NL>>
  /\ result = content

\* ------------------------------------------------ claims on SpecParse
\* C5: no directive whose line or count is not positive is in the list
\* parseTextEditMarkup returns, and none is applied.
C5_NonPositiveDiscarded ==
  pc # "parse" =>
    /\ \A k \in 1..Len(objs0) :
         /\ objs0[k].line > 0
         /\ objs0[k].type # "insert" => objs0[k].count > 0
    /\ \A a \in 1..Len(log) :
         (log[a].what = "applied" /\ log[a].type # "insert")
           => objs0[log[a].id].count > 0

KindRank(e) ==
  CASE e.type = "insert" -> 1 [] e.type = "replace" -> 2 [] e.type = "delete" -> 3

RECURSIVE WithCountOne(_)
WithCountOne(m) ==
  IF m = <<>> THEN <<>>
  ELSE IF m[1] \in {OpenReplace, OpenDelete} /\ IsLineAttr(At(m, 2))
          /\ ~ IsCountAttr(At(m, 3))
       THEN <<m[1], m[2], CountAttr(1)>> \o WithCountOne(SubSeq(m, 3, Len(m)))
  ELSE <<m[1]>> \o WithCountOne(Tail(m))

\* The batch es with the count of every replace and delete of count 1 left out.
Uncounted(es) ==
  [k \in DOMAIN es |->
     IF es[k].type # "insert" /\ es[k].count = 1
     THEN [es[k] EXCEPT !.count = Undefined] ELSE es[k]]

\* The line each edit object of the batch es holds when the call is over.
ShiftedLines(text, es) ==
  LET st == ApplyLoop([lines |-> Split(text), objs |-> es,
                       copy |-> SortByLine(Ids(es), es), i |-> 0])
  IN [k \in DOMAIN es |-> st.objs[k].line]

\* The whole text is made of well-formed directives and plain text.
WellFormedText == \A k \in 1..Len(chunks) : chunks[k] \in WellFormedChunks

\* C12: in a text of well-formed directives, a replace or delete written
\* without a count gives the same extracted directives and the same document
\* as the text with count="1" written in; an edit object without a count gives
\* the same document as one with count 1.
C12_CountDefault ==
  /\ (pc = "call" /\ WellFormedText) =>
       objs0 = parseTextEditMarkup(WithCountOne(message))
  /\ (pc = "done" /\ WellFormedText) =>
       result = applyTextEditChanges(content, parseTextEditMarkup(WithCountOne(message)))
  /\ pc = "done" =>
       /\ result = applyTextEditChanges(content, Uncounted(objs0))
       /\ [k \in DOMAIN objs |-> objs[k].line] = ShiftedLines(content, Uncounted(objs0))

\* A delete written without a count, followed by an insert it shifts, has
\* removed one line.
C12_Witness ==
  /\ pc = "done"
  /\ Len(chunks) = 2
  /\ chunks[1] = DeleteChunk(1, Undefined)
  /\ chunks[2] \in InsertChunks
  /\ message # WithCountOne(message)
  /\ Len(objs0) = 2
  /\ objs0[2].type = "delete" /\ objs0[2].count = 1
  /\ \E a \in 1..Len(log) :
       log[a].type = "delete" /\ log[a].what = "applied" /\ log[a].removed = 1

\* C16: on every batch the extractor returns, every insertion is made at an
\* index 0..length, every replace or delete at an index below the length and
\* removes 1..length - index lines; each iteration considers one directive of
\* a list that does not grow, and the call returns after considering each
\* directive exactly once.
C16_WithinWorkingArray ==
  /\ \A a \in 1..Len(log) :
       log[a].what = "applied" =>
         /\ log[a].type = "insert" =>
              (0 <= log[a].index /\ log[a].index <= log[a].before)
         /\ log[a].type \in {"replace", "delete"} =>
              /\ 0 <= log[a].index /\ log[a].index < log[a].before
              /\ 1 <= log[a].removed
              /\ log[a].removed <= log[a].before - log[a].index
  /\ pc = "loop" =>
       /\ Len(editsCopy) = Len(objs0)
       /\ i <= Len(editsCopy)
       /\ Len(log) = i
  /\ pc = "done" =>
       /\ Len(log) = Len(objs0)
       /\ \A k \in 1..Len(objs0) : Cardinality({a \in 1..Len(log) : log[a].id = k}) = 1

\* Two overlapping directives of the same text, a delete whose count reaches
\* past the end among them, have both been applied and the call is over.
C16_Witness ==
  /\ pc = "done"
  /\ Len(objs0) = 2
  /\ objs0[1].line = objs0[2].line
  /\ \A a \in 1..2 : log[a].what = "applied"
  /\ \E a \in 1..2 :
       /\ log[a].type = "delete"
       /\ objs0[log[a].id].count > log[a].removed

\* C22: the extractor returns no directive with a line below 1, and no
\* directive has a line below 1 at any point of the call that applies them.
C22_LineAtLeastOne ==
  /\ \A k \in 1..Len(objs0) : objs0[k].line >= 1
  /\ \A k \in 1..Len(objs) : objs[k].line >= 1
  /\ \A a \in 1..Len(log) : log[a].line >= 1

\* A delete and an insert were extracted; the delete, applied first, has
\* moved the insert up, to a line that is still at least 1.
C22_Witness ==
  /\ pc = "done"
  /\ Len(objs0) = 2
  /\ objs0[1].type = "insert" /\ objs0[2].type = "delete"
  /\ log[1].type = "delete" /\ log[1].what = "applied"
  /\ objs[1].line < objs0[1].line

\* ----------------------------------------------- claims on SpecOracle
OpensOf(m, head) == Cardinality({p \in 1..Len(m) : m[p] = head})
ClosesOf(m, closer) ==
  Cardinality({p \in 1..Len(m) : m[p] = closer /\ At(m, p + 1) = Gt})
SelfClosed(m) == Cardinality({p \in 1..Len(m) : SelfClosedEnd(m, p) # 0})

Unbalanced(m, kind) ==
  CASE kind = "insert" ->
         OpensOf(m, OpenInsert) > 0
         /\ OpensOf(m, OpenInsert) # ClosesOf(m, CloseInsert)
    [] kind = "replace" ->
         OpensOf(m, OpenReplace) > 0
         /\ OpensOf(m, OpenReplace) # ClosesOf(m, CloseReplace)
    [] kind = "delete" ->
         OpensOf(m, OpenDelete) > 0 /\ OpensOf(m, OpenDelete) # SelfClosed(m)

\* C8: the text is reported incomplete exactly when some kind that appears in
\* it has not as many closing markers as opening markers of that same kind.
C8_PerKindBalance ==
  pc = "stream" =>
    (editing <=> \E kind \in {"insert", "replace", "delete"} : Unbalanced(message, kind))

\* C9: a text with a closing marker that has no opening marker of its kind is
\* reported incomplete.
C9_StrayCloserIncomplete ==
  (/\ pc = "stream"
   /\ \/ ClosesOf(message, CloseInsert) > OpensOf(message, OpenInsert)
      \/ ClosesOf(message, CloseReplace) > OpensOf(message, OpenReplace))
    => editing

\* The whole text is one well-formed insert or replace among plain text.
OneDirective ==
  /\ \E k \in 1..Len(chunks) : chunks[k] \in InsertChunks \cup ReplaceChunks
  /\ \A k, n \in 1..Len(chunks) :
       k # n => (chunks[k] \in PlainChunks \/ chunks[n] \in PlainChunks)
  /\ \A k \in 1..Len(chunks) :
       chunks[k] \in InsertChunks \cup ReplaceChunks \cup PlainChunks

HasOpening(m) ==
  \E p, q \in 1..Len(m) : p < q /\ m[p] \in {OpenInsert, OpenReplace} /\ m[q] = Gt
HasClosing(m) ==
  \E p \in 1..Len(m) : m[p] \in {CloseInsert, CloseReplace} /\ At(m, p + 1) = Gt

\* C10: of a text with one well-formed insert or replace, every prefix with the
\* opening marker and not the whole closing marker is reported incomplete and
\* every prefix with the whole closing marker complete; in a text of
\* well-formed directives a complete report turns incomplete only when a new
\* opening marker arrives.
C10_StreamedDirective ==
  /\ []((pc = "stream" /\ OneDirective) =>
          /\ (HasOpening(message) /\ ~ HasClosing(message)) => editing
          /\ HasClosing(message) => ~ editing)
  /\ [][(pc = "stream" /\ WellFormedText /\ HasClosing(message) /\ ~ editing
         /\ editing')
          => OpenTags(message') > OpenTags(message)]_vars

\* A replace directive has arrived whole, after its opening marker was
\* reported incomplete, and is reported complete.
C10_Witness ==
  /\ pc = "stream"
  /\ OneDirective
  /\ \E k \in 1..Len(chunks) : chunks[k] \in ReplaceChunks
  /\ HasOpening(message) /\ HasClosing(message)
  /\ pending = <<>>
  /\ ~ editing

\* ------------------------------------------------------ claims on Spec
\* C2: for every assistant message, applyTextEditChanges and
\* updateTextEditContent run at most once.
C2_AtMostOnce ==
  pc = "chat" => \A id \in DOMAIN applyCount : applyCount[id] <= 1

\* C11: the directives of a message are applied only if the completeness
\* check reports the final text of the message complete.
C11_GatedByCompleteness ==
  pc = "chat" =>
    \A k \in 1..Len(aiMessages) :
      applyCount[aiMessages[k].id] > 0 => ~ hasIncompleteXmlTags(aiMessages[k].content)

\* C25: a message that was in aiMessages when the component mounted is never
\* processed for markup: applyTextEditChanges is never called for it, no
\* processing function is ever started for it and none of its app-control
\* operations is executed, however often the effects run again.
InitialIds == {1}

C25_InitialNeverProcessed ==
  pc = "chat" =>
    \A id \in InitialIds :
      /\ applyCount[id] = 0
      /\ appOps[id] = 0
      /\ \A k \in 1..Len(tasks) : tasks[k].id # id

\* The initial message is the last one, is not older than the mount, holds an
\* edit directive and an app-control operation, TextEdit is open, and the
\* effects have run again after the context arrived.
C25_Witness ==
  /\ pc = "chat"
  /\ Len(aiMessages) = 1
  /\ aiMessages[1].id = 1
  /\ ~ aiMessages[1].old
  /\ Len(parseTextEditMarkup(aiMessages[1].content)) > 0
  /\ Len(parseAppControlMarkup(aiMessages[1].content)) > 0
  /\ textEditContext.open
  /\ ~ dirty
  /\ ~ isLoading
  /\ appOps[1] = 0
  /\ applyCount[1] = 0

\* ---------------------------------------------------- claims on SpecTts
\* C26: stop() cancels everything queued before it: no request is sent and no
\* clip is scheduled for a speak() call after a stop() that came after that
\* call, and the first clip of the calls made after a stop() starts at the
\* audio time at which it is scheduled.
C26_StopCancelsQueued ==
  \A k \in 1..Len(calls) :
    /\ calls[k].fetchedAt # Undefined => calls[k].fetchedAt = calls[k].epoch
    /\ calls[k].schedAt # Undefined => calls[k].schedAt = calls[k].epoch
    /\ (calls[k].epoch > 0 /\ calls[k].prev = 0 /\ calls[k].stage = "scheduled")
         => calls[k].start = calls[k].now

\* C27: of two speak() calls with no stop() between them nor before their
\* clips are scheduled, the later one does not send its request before the
\* earlier one is settled, and its clip starts no earlier than the end of the
\* clip of the earlier one.
Uninterrupted(k) == calls[k].stage = "scheduled" /\ calls[k].schedAt = calls[k].epoch

C27_CallOrderNoOverlap ==
  \A a, b \in 1..Len(calls) :
    (a < b /\ calls[a].epoch = calls[b].epoch) =>
      /\ (calls[b].stage # "queued" /\ calls[b].fetchedAt = calls[b].epoch)
           => (Finished(a) \/ calls[a].fetchedAt # calls[a].epoch)
      /\ (Uninterrupted(a) /\ Uninterrupted(b))
           => calls[b].start >= calls[a].start + calls[a].dur

\* Two clips are scheduled back to back although the second was decoded
\* before the first had played to its end.
C27_Witness ==
  /\ Len(calls) >= 2
  /\ Uninterrupted(1)
  /\ Uninterrupted(2)
  /\ calls[2].now < calls[1].start + calls[1].dur
  /\ calls[2].start = calls[1].start + calls[1].dur

\* -------------------------------------------------- claims on SpecRooms
Quiescent == \A k \in 1..Len(requests) : requests[k].at = "done"

\* C28: once the joinRoom and leaveRoom requests in flight for a room have
\* all completed, the userCount of the room record is the size of the
\* member set of the room.
C28_CountMatchesMembers ==
  (/\ pc = "rooms"
   /\ Quiescent
   /\ \A k \in 1..Len(requests) : requests[k].op \in {"joinRoom", "leaveRoom"})
    => (roomRecord.exists /\ roomRecord.userCount = Cardinality(roomUsers))

\* C29: once a deleteRoom request has returned success and every request in
\* flight has completed, the room has no record, no message list and no
\* member set.
C29_DeleteRemovesAll ==
  (/\ pc = "rooms"
   /\ Quiescent
   /\ \E k \in 1..Len(requests) :
        requests[k].op = "deleteRoom" /\ requests[k].status = 200)
    => (~ roomRecord.exists /\ roomUsers = {} /\ messageList = <<>>)

\* ------------------------------------------------- claims on SpecClient
\* C30: roomMessages holds only messages of the room currently selected, each
\* id at most once; the list saved for a room holds only messages of that
\* room; and once a message has come both by Pusher and by the response of
\* sendMessage, its temporary copy is gone.
C30_OnlyCurrentRoom ==
  pc = "client" =>
    /\ \A j \in 1..Len(roomMessages) : roomMessages[j].roomId = currentRoom
    /\ \A a, b \in 1..Len(roomMessages) :
         a < b => roomMessages[a].id # roomMessages[b].id
    /\ \A r \in RoomIds : \A j \in 1..Len(cache[r]) : cache[r][j].roomId = r
    /\ \A x, y \in net :
         (x.kind = "send" /\ x.state = "ok" /\ y.kind = "pusher" /\ y.state = "ok"
          /\ x.n = y.n) => ~ HasId(roomMessages, TempId(x.n))

====
